---- MODULE Spec2Model ----
(***************************************************************************)
(* Parallel prefix-range listing of an S3 "directory":                     *)
(* FileArithmetics::FileRepresentation, S3IteratorAsync::QueryCache and    *)
(* S3IteratorAsync of src/Disks/ObjectStorages/S3/S3ObjectStorage.cpp.     *)
(*                                                                         *)
(* A key is a sequence of character codes (bytes); an object is the record *)
(* [Key |-> key] (size, time and etag are carried along and never read by  *)
(* the iterator's decisions).                                              *)
(***************************************************************************)
EXTENDS Integers, Sequences, FiniteSets, Bags, TLC

\* ------------------------------------------------------------------ bounds

\* max_list_size is drawn from 1..MaxListSize
MaxListSize == 2
\* num_parallel_requests is drawn from 1..MaxParallelRequests
MaxParallelRequests == 2
\* num_workers (threads of pool_requests) is drawn from 1..MaxWorkers
MaxWorkers == 2
\* number of non-success endpoint responses in one behaviour
MaxFailures == 1

\* ------------------------------------------------------- FileArithmetics

\* "!0123456789ABCDEFGHIJKLMNOPQRSTUVWXYZabcdefghijklmnopqrstuvwxyz~"
alphabet ==
    <<33>> \o [i \in 1..10 |-> 47 + i] \o [i \in 1..26 |-> 64 + i]
           \o [i \in 1..26 |-> 96 + i] \o <<126>>

\* alphabet.size()
AlphabetSize == Len(alphabet)

\* the position of the symbol counted from the end of the alphabet
AlphabetFind_FromEnd(elem) ==
    IF \E i \in 1..Len(alphabet) : alphabet[i] = elem
    THEN Len(alphabet) - (CHOOSE i \in 1..Len(alphabet) : alphabet[i] = elem)
    ELSE -1

\* alphabet.find(elem): the 0-based index, or -1 for std::string::npos
AlphabetFind(elem) ==
    IF \E i \in 1..Len(alphabet) : alphabet[i] = elem
    THEN (CHOOSE i \in 1..Len(alphabet) : alphabet[i] = elem) - 1
    ELSE -1

\* the constructor from a string accepting every filename
ThrowsBadArguments_Never(filename) == FALSE

\* the constructor from a string throws BAD_ARGUMENTS on such a filename
ThrowsBadArguments(filename) ==
    \E i \in 1..Len(filename) : AlphabetFind(filename[i]) = -1

RECURSIVE FileRepresentation(_)
\* number_representation after the constructor's loop over the filename
FileRepresentation(filename) ==
    IF filename = <<>> THEN 0
    ELSE FileRepresentation(SubSeq(filename, 1, Len(filename) - 1)) * AlphabetSize
            + AlphabetFind(filename[Len(filename)])

RECURSIVE toString_NotReversed(_)
\* the symbols in the order the loop pushes them, without std::reverse
toString_NotReversed(number) ==
    IF number > 0
    THEN <<alphabet[(number % AlphabetSize) + 1]>> \o toString_NotReversed(number \div AlphabetSize)
    ELSE <<>>

RECURSIVE toStringThrows(_)
\* toString() throws BAD_ARGUMENTS when a token is not an index of the alphabet
toStringThrows(number) ==
    /\ number > 0
    /\ LET token == number % AlphabetSize
       IN \/ token < 0
          \/ token >= AlphabetSize
          \/ toStringThrows(number \div AlphabetSize)

RECURSIVE toString(_)
\* while (current > 0) push alphabet[current % 64], current /= 64; reverse
toString(number) ==
    IF number > 0
    THEN toString(number \div AlphabetSize) \o <<alphabet[(number % AlphabetSize) + 1]>>
    ELSE <<>>

\* the dense key blocks of scenario S4 have at most MaxBlock keys each
MaxBlock == 3

\* the staging stack of a QueryCache used alone holds at most MaxStaged objects
MaxStaged == 3

\* getBatchFrom is asked for at most MaxCount objects
MaxCount == 3

\* the filenames given to FileRepresentation alone have at most MaxKeyLen symbols
MaxKeyLen == 3

\* the numbers given to toString alone are at most MaxNumber
MaxNumber == 4200

\* a float in [0.5, 1.0] is mantissa / 2^23 exactly
FloatScale == 2 ^ 23

\* 0.9f (the float nearest to 0.9: 7549747 / 2^23) and 1.0f
Float_0_9 == 1843 * 4096 + 819
Float_1_0 == 2 ^ 23

\* floor(n * value / 2^23) for n >= 0, computed in two halves of value so
\* that no intermediate product leaves 32 bits (n < 2^20)
ScaleDown(n, value) ==
    (n * (value \div 4096) + (n * (value % 4096)) \div 4096) \div (FloatScale \div 4096)

\* the number multiplied by one
MulFloat_ByOne(number, value) == number

\* operator*=(float): the exact product number * value is cast back to an
\* integer, which truncates towards zero
MulFloat(number, value) ==
    IF number >= 0
    THEN ScaleDown(number, value)
    ELSE -ScaleDown(-number, value)

\* --------------------------------------------------------------- strings

RECURSIVE LexLess(_, _)
\* std::string operator< : byte-wise lexicographic order
LexLess(a, b) ==
    IF b = <<>> THEN FALSE
    ELSE IF a = <<>> THEN TRUE
    ELSE IF Head(a) # Head(b) THEN Head(a) < Head(b)
    ELSE LexLess(Tail(a), Tail(b))

StartsWith(s, prefix) ==
    Len(s) >= Len(prefix) /\ SubSeq(s, 1, Len(prefix)) = prefix

\* s.substr(n)
Substr(s, n) == SubSeq(s, n + 1, Len(s))

RECURSIVE SortKeys(_)
\* std::sort of a set of distinct keys
SortKeys(S) ==
    IF S = {} THEN <<>>
    ELSE LET m == CHOOSE x \in S : \A y \in S \ {x} : LexLess(x, y)
         IN <<m>> \o SortKeys(S \ {m})

Min(a, b) == IF a <= b THEN a ELSE b

Last(s) == s[Len(s)]

SeqToSet(s) == {s[i] : i \in 1..Len(s)}

\* ---------------------------------------------------------------- store

\* the iterator's path_prefix: "p"
path_prefix == <<112>>

\* keys of the bucket under the prefix, relative to it:
\*   "a1"  "a2"  "a3"  "b"  "b/"  "c"
RelativeKeys ==
    { <<97, 49>>, <<97, 50>>, <<97, 51>>, <<98>>, <<98, 47>>, <<99>> }

KeyUniverse == {path_prefix \o r : r \in RelativeKeys}

\* a key of the bucket outside the prefix: "q"
OutsideKey == <<113>>

\* the multiplication_length settings of the model: 0.9 and 1.0
Multiplications == {Float_0_9, Float_1_0}

Object(key) == [Key |-> key]

\* an endpoint that lists from start_after itself on
ListObjectsV2_FromStartAfter(bucket_keys, prefix, start_after, max_keys) ==
    LET matching == {k \in bucket_keys : StartsWith(k, prefix) /\ ~LexLess(k, start_after)}
        sorted == SortKeys(matching)
    IN [Contents |-> [i \in 1..Min(max_keys, Len(sorted)) |-> Object(sorted[i])],
        IsTruncated |-> Len(sorted) > max_keys]

\* an endpoint that never reports a truncated page
ListObjectsV2_NeverTruncated(bucket_keys, prefix, start_after, max_keys) ==
    LET matching == {k \in bucket_keys : StartsWith(k, prefix) /\ LexLess(start_after, k)}
        sorted == SortKeys(matching)
    IN [Contents |-> [i \in 1..Min(max_keys, Len(sorted)) |-> Object(sorted[i])],
        IsTruncated |-> FALSE]

\* client->ListObjectsV2 on a static bucket: the first max_keys objects under
\* the prefix whose key is greater than start_after, and whether more follow
ListObjectsV2(bucket_keys, prefix, start_after, max_keys) ==
    LET matching == {k \in bucket_keys : StartsWith(k, prefix) /\ LexLess(start_after, k)}
        sorted == SortKeys(matching)
    IN [Contents |-> [i \in 1..Min(max_keys, Len(sorted)) |-> Object(sorted[i])],
        IsTruncated |-> Len(sorted) > max_keys]

KeysOf(objects) == [i \in 1..Len(objects) |-> objects[i].Key]

\* ---------------------------------------------------------------- state

VARIABLES
    store,                  \* keys of the bucket (static)
    max_list_size, use_parallel_listing, num_workers,
    num_parallel_requests, multiplication_length,
    next_start_after,       \* request->GetStartAfter()
    cache_builded,
    extracted_keys, key_to_object, queue_,      \* QueryCache
    pc,                     \* where the foreground getBatchAndCheckNext stands
    result,                 \* how the last getBatchAndCheckNext ended
    thrown,                 \* the exception it ended with, "none" otherwise
    batch,                  \* keys the current (last) call put into its batch
    truncated,              \* GetIsTruncated() of the last live page
    file_end, distance,     \* locals of fillCache
    jobs,                   \* the tasks given to pool_requests in this cycle
    first_exception,        \* the first exception a task of the cycle threw
    emitted,                \* history: every key put into a batch, in order
    call_start_after,       \* history: next_start_after when the call began
    live_requests,          \* history: every live list request: its start_after
                            \*   and how many keys had been emitted before it
    calls,                  \* history: number of getBatchAndCheckNext calls
    path,                   \* history: the way the last call took
    cycles_started, cycles_completed,   \* history: fillCache calls / returns
    failures,               \* history: non-success responses so far
    cache_use,              \* the last QueryCache call made on the cache alone
    arith,                  \* a FileRepresentation computation
    lifetime,               \* where the iterator is between constructor and
                            \*   the end of ~S3IteratorAsync
    listing,                \* a call of S3ObjectStorage::listObjects
    holder,                 \* an Entry::StateHolder and the calls made on it
    balancing               \* a GetPriorityForLoadBalancing and its last call

config == <<store, max_list_size, use_parallel_listing, num_workers,
            num_parallel_requests, multiplication_length>>
cache == <<extracted_keys, key_to_object, queue_>>
fill == <<file_end, distance, jobs, first_exception>>
aside == <<cache_use, arith, lifetime, listing, holder, balancing>>
vars == <<config, aside, next_start_after, cache_builded, cache, pc, result, thrown, batch,
          truncated, fill, emitted, call_start_after, live_requests, calls, path,
          cycles_started, cycles_completed, failures>>

\* ----------------------------------------------------------- QueryCache

\* std::lower_bound instead: the position of the first key not less than
\* filename_after
UpperBound_LowerBound(keys, filename_after) ==
    Cardinality({i \in 1..Len(keys) : LexLess(keys[i], filename_after)}) + 1

\* std::upper_bound(extracted_keys, filename_after): 1-based position of the
\* first key greater than filename_after, Len + 1 when there is none
UpperBound(keys, filename_after) ==
    IF \E i \in 1..Len(keys) : LexLess(filename_after, keys[i])
    THEN CHOOSE i \in 1..Len(keys) :
            /\ LexLess(filename_after, keys[i])
            /\ \A j \in 1..(i - 1) : ~LexLess(filename_after, keys[j])
    ELSE Len(keys) + 1

\* the loop left one object before result.size() == count
getBatchFrom_StopsEarly(filename_after, count) ==
    LET it == UpperBound(extracted_keys, filename_after)
        n == Min(count - 1, Len(extracted_keys) - it + 1)
    IN [i \in 1..n |-> key_to_object[extracted_keys[it + i - 1]]]

getBatchFrom(filename_after, count) ==
    LET it == UpperBound(extracted_keys, filename_after)
        n == Min(count, Len(extracted_keys) - it + 1)
    IN [i \in 1..n |-> key_to_object[extracted_keys[it + i - 1]]]

\* queue_ after insertObjects(objects): every object is pushed
insertObjects(objects) == queue_ (+) SetToBag(SeqToSet(objects))

\* the objects build() pops from the stack until it is empty, in pop order
RECURSIVE PopAll(_)
PopAll(stack) ==
    IF stack = EmptyBag
    THEN <<>>
    ELSE LET object == CHOOSE o \in BagToSet(stack) : TRUE
         IN <<object>> \o PopAll(stack (-) SetToBag({object}))

\* std::sort of a vector of keys
RECURSIVE Sort(_)
Sort(keys) ==
    IF keys = <<>>
    THEN <<>>
    ELSE LET rest == Sort(Tail(keys))
             n == Cardinality({i \in 1..Len(rest) : LexLess(rest[i], Head(keys))})
         IN SubSeq(rest, 1, n) \o <<Head(keys)>> \o SubSeq(rest, n + 1, Len(rest))

\* the vector left as it is
Unique_KeepsAll(keys) == keys

\* erase(std::unique(...)): each run of equal neighbours is reduced to one key
RECURSIVE Unique(_)
Unique(keys) ==
    IF Len(keys) <= 1
    THEN keys
    ELSE IF keys[1] = keys[2]
         THEN Unique(Tail(keys))
         ELSE <<keys[1]>> \o Unique(Tail(keys))

\* extracted_keys after build(): the popped keys appended, sorted, made unique
BuildKeys ==
    LET popped == PopAll(queue_)
    IN Unique(Sort(extracted_keys \o [i \in 1..Len(popped) |-> popped[i].Key]))

\* key_to_object after build()
BuildMap ==
    LET popped == BagToSet(queue_)
    IN [k \in DOMAIN key_to_object \cup {o.Key : o \in popped} |->
            IF \E o \in popped : o.Key = k
            THEN CHOOSE o \in popped : o.Key = k
            ELSE key_to_object[k]]

build ==
    /\ extracted_keys' = BuildKeys
    /\ key_to_object' = BuildMap
    /\ queue_' = EmptyBag

\* a clear() that leaves the sorted keys and the map as they are
clear_KeepsKeys == UNCHANGED <<extracted_keys, key_to_object>>

\* clear() empties the sorted keys and the map
clear ==
    /\ extracted_keys' = <<>>
    /\ key_to_object' = <<>>

\* ---------------------------------------------------------------- Init

\* no QueryCache call was made outside the iterator
NoCacheUse ==
    [op |-> "none", filename_after |-> <<>>, count |-> 0, objects |-> <<>>,
     before |-> <<>>, turn |-> 0, cleared |-> FALSE]

\* no FileRepresentation computation was made outside the iterator
NoArith ==
    [pc |-> "none", filename |-> <<>>, number |-> 0, decoded |-> <<>>, again |-> 0]

\* the S3IteratorAsync after its constructor, whatever the bucket and settings
\* no listObjects call, a StateHolder as constructed (State::None), no
\* getPriorityFunc call
NoListing ==
    [pc |-> "none", max_keys |-> 0, list_object_keys_size |-> 0, objects |-> 0,
     given |-> 0, children |-> 0, listed |-> 0, request_max_keys |-> 0,
     keys_left |-> <<0, 0, 0, 0>>, wrapped |-> FALSE]
NoHolder == [state |-> "None", called |-> <<>>, outcome |-> "none"]
NoBalancing ==
    [pc |-> "none", last_used |-> 0, before |-> 0, load_balance |-> "none",
     offset |-> 0, pool_size |-> 0, calls |-> 0]

OthersIdle == listing = NoListing /\ holder = NoHolder /\ balancing = NoBalancing

Constructed ==
    /\ next_start_after = <<>>
    /\ cache_builded = TRUE
    /\ extracted_keys = <<>>
    /\ key_to_object = <<>>
    /\ queue_ = EmptyBag
    /\ pc = "idle"
    /\ result = "none"
    /\ thrown = "none"
    /\ batch = <<>>
    /\ truncated = FALSE
    /\ file_end = 0
    /\ distance = 0
    /\ jobs = <<>>
    /\ first_exception = "none"
    /\ emitted = <<>>
    /\ call_start_after = <<>>
    /\ live_requests = <<>>
    /\ calls = 0
    /\ path = "none"
    /\ cycles_started = 0
    /\ cycles_completed = 0
    /\ failures = 0
    /\ lifetime = "alive"

Init ==
    /\ store \in {S \cup {OutsideKey} : S \in SUBSET KeyUniverse}
    /\ max_list_size \in 1..MaxListSize
    /\ use_parallel_listing \in BOOLEAN
    /\ num_workers \in 1..MaxWorkers
    /\ num_parallel_requests \in 1..MaxParallelRequests
    /\ multiplication_length \in Multiplications
    /\ Constructed
    /\ OthersIdle
    /\ cache_use = NoCacheUse
    /\ arith = NoArith

\* ------------------------------------------------- getBatchAndCheckNext

\* the call may be made: the previous one returned true or threw (a retry)
CanCall == pc = "idle" /\ lifetime = "alive"

\* the cursor taken from the front of the page instead of its back
NewStartAfter_Front(objects) == objects[1].Key

\* request->SetStartAfter(objects.back().GetKey())
NewStartAfter(objects) == Last(objects).Key

\* the flag left as it was after fillCache
CacheBuildedAfterFill_Stays == TRUE

\* cache_builded = false after fillCache
CacheBuildedAfterFill == FALSE

\* any cache result with objects taken as the batch
CacheServes_AnyObjects(cache_result) == cache_result # <<>>

\* cache_result.size() == max_list_size
CacheServes(cache_result) == Len(cache_result) = max_list_size

CallHistory(way) ==
    /\ call_start_after' = next_start_after
    /\ calls' = calls + 1
    /\ path' = way

LiveHistory(way) ==
    /\ CallHistory(way)
    /\ live_requests' = Append(live_requests,
            [start_after |-> next_start_after, emitted_before |-> Len(emitted)])

\* the cache holds a full batch past the cursor: it is the batch of the call
ServeFromCache ==
    LET cache_result == getBatchFrom(next_start_after, max_list_size) IN
    /\ CanCall
    /\ CacheServes(cache_result)
    /\ batch' = KeysOf(cache_result)
    /\ emitted' = emitted \o KeysOf(cache_result)
    /\ next_start_after' = NewStartAfter(cache_result)
    /\ CallHistory("cache")
    /\ result' = "true"
    /\ thrown' = "none"
    /\ UNCHANGED <<config, aside, cache_builded, cache, pc, truncated, fill,
                   live_requests, cycles_started, cycles_completed, failures>>

\* the live request fails: the S3Exception at the end of the function
LiveFails ==
    /\ CanCall
    /\ ~CacheServes(getBatchFrom(next_start_after, max_list_size))
    /\ failures < MaxFailures
    /\ failures' = failures + 1
    /\ LiveHistory("live_error")
    /\ batch' = <<>>
    /\ result' = "throw"
    /\ thrown' = "S3_ERROR"
    /\ UNCHANGED <<config, aside, next_start_after, cache_builded, cache, pc, truncated,
                   fill, emitted, cycles_started, cycles_completed>>

\* the live page is empty: objects.back() is evaluated on an empty vector.
\* Undefined behaviour: the process dies, or a key is read from memory the
\* vector does not own (any string) and the call goes on to its return.
LiveEmptyPage ==
    LET outcome == ListObjectsV2(store, path_prefix, next_start_after, max_list_size) IN
    /\ CanCall
    /\ ~CacheServes(getBatchFrom(next_start_after, max_list_size))
    /\ outcome.Contents = <<>>
    /\ LiveHistory("live_empty")
    /\ batch' = <<>>
    /\ truncated' = outcome.IsTruncated
    /\ thrown' = "none"
    /\ \/ /\ pc' = "crashed"
          /\ UNCHANGED <<next_start_after, result>>
       \/ /\ next_start_after' \in KeyUniverse \cup {<<>>}
          /\ pc' = "exhausted"
          /\ result' = "false"
    /\ UNCHANGED <<config, aside, cache_builded, cache, fill, emitted,
                   cycles_started, cycles_completed, failures>>

\* the condition without use_parallel_listing
StartsPrefetch_IgnoresSwitch(is_truncated) ==
    is_truncated /\ cache_builded

\* the condition without GetIsTruncated()
StartsPrefetch_IgnoresTruncated(is_truncated) ==
    use_parallel_listing /\ cache_builded

\* the condition without cache_builded
StartsPrefetch_IgnoresCacheBuilded(is_truncated) ==
    use_parallel_listing /\ is_truncated

\* the condition guarding the prefetch after a live page
StartsPrefetch(is_truncated) ==
    use_parallel_listing /\ is_truncated /\ cache_builded

\* a live page with objects and no prefetch: emit, move the cursor, return
LivePage ==
    LET outcome == ListObjectsV2(store, path_prefix, next_start_after, max_list_size)
        objects == outcome.Contents IN
    /\ CanCall
    /\ ~CacheServes(getBatchFrom(next_start_after, max_list_size))
    /\ objects # <<>>
    /\ ~StartsPrefetch(outcome.IsTruncated)
    /\ LiveHistory("live")
    /\ batch' = KeysOf(objects)
    /\ emitted' = emitted \o KeysOf(objects)
    /\ next_start_after' = NewStartAfter(objects)
    /\ truncated' = outcome.IsTruncated
    /\ result' = IF outcome.IsTruncated THEN "true" ELSE "false"
    /\ thrown' = "none"
    /\ pc' = IF outcome.IsTruncated THEN "idle" ELSE "exhausted"
    /\ UNCHANGED <<config, aside, cache_builded, cache, fill,
                   cycles_started, cycles_completed, failures>>

\* a live page followed by the prefetch: emit, move the cursor, clear the
\* cache and enter fillCache, whose two FileRepresentation constructors throw
\* on a symbol outside the alphabet
LivePagePrefetch ==
    LET outcome == ListObjectsV2(store, path_prefix, next_start_after, max_list_size)
        objects == outcome.Contents
        first_request_file_start == objects[1].Key
        first_request_file_end == Last(objects).Key
        start_name == Substr(first_request_file_start, Len(path_prefix))
        end_name == Substr(first_request_file_end, Len(path_prefix)) IN
    /\ CanCall
    /\ ~CacheServes(getBatchFrom(next_start_after, max_list_size))
    /\ objects # <<>>
    /\ StartsPrefetch(outcome.IsTruncated)
    /\ LiveHistory("live_prefetch")
    /\ batch' = KeysOf(objects)
    /\ emitted' = emitted \o KeysOf(objects)
    /\ next_start_after' = NewStartAfter(objects)
    /\ truncated' = outcome.IsTruncated
    /\ clear
    /\ cycles_started' = cycles_started + 1
    /\ jobs' = <<>>
    /\ first_exception' = "none"
    /\ IF ThrowsBadArguments(start_name) \/ ThrowsBadArguments(end_name)
       THEN /\ result' = "throw"
            /\ thrown' = "BAD_ARGUMENTS"
            /\ UNCHANGED <<pc, file_end, distance>>
       ELSE /\ file_end' = FileRepresentation(end_name)
            /\ distance' = MulFloat(FileRepresentation(end_name) - FileRepresentation(start_name),
                                    multiplication_length)
            /\ pc' = "scheduling"
            /\ result' = "running"
            /\ thrown' = "none"
    /\ UNCHANGED <<config, aside, cache_builded, queue_, cycles_completed, failures>>

\* ------------------------------------------------------------ fillCache

\* one turn of the loop of fillCache: task i is given to pool_requests
ScheduleSubrequest ==
    LET i == Len(jobs)
        start_file == file_end + 1 + distance * i
        end_file == start_file + distance IN
    /\ pc = "scheduling"
    /\ jobs' = Append(jobs, [start_file |-> start_file, end_file |-> end_file,
                             file_iterator |-> path_prefix \o toString(start_file),
                             first_request |-> TRUE, state |-> "queued",
                             error |-> "none", rank |-> 0,
                             requests |-> <<>>, pages |-> <<>>])
    /\ pc' = IF i + 1 < num_parallel_requests THEN "scheduling" ELSE "waiting"
    /\ UNCHANGED <<config, aside, next_start_after, cache_builded, cache, result, thrown, batch,
                   truncated, file_end, distance, first_exception, emitted,
                   call_start_after, live_requests, calls, path, cycles_started,
                   cycles_completed, failures>>

Running == {j \in 1..Len(jobs) : jobs[j].state = "running"}
Finished == {j \in 1..Len(jobs) : jobs[j].state \in {"done", "failed"}}
Failed == {j \in 1..Len(jobs) : jobs[j].state = "failed"}

\* a free thread of pool_requests takes a queued task
StartJob(j) ==
    /\ j \in 1..Len(jobs)
    /\ jobs[j].state = "queued"
    /\ Cardinality(Running) < num_workers
    /\ jobs' = [jobs EXCEPT ![j].state = "running"]
    /\ UNCHANGED <<config, aside, next_start_after, cache_builded, cache, pc, result,
                   thrown, batch, truncated, file_end, distance, first_exception, emitted,
                   call_start_after, live_requests, calls, path, cycles_started,
                   cycles_completed, failures>>

\* --------------------------------------------------------- runSubrequest

Capture(exception) == IF first_exception = "none" THEN exception ELSE first_exception

\* history: task j ends with the exception, after Failed other tasks did
Throws(tasks, j, exception) ==
    [tasks EXCEPT ![j].state = "failed", ![j].first_request = FALSE,
                  ![j].error = exception, ![j].rank = Cardinality(Failed)]

\* end_file <= FileRepresentation(back().GetKey().substr(path_prefix.size()))
PastWindow(end_file, back_name) == end_file <= FileRepresentation(back_name)

\* every request of a task a probe of one key
MaxKeys_AlwaysProbe(first_request) == 1

\* current_request.SetMaxKeys: 1 for the first request of a task, then
\* max_list_size
MaxKeys(first_request) == IF first_request THEN 1 ELSE max_list_size

\* history: task j issued client->ListObjectsV2(current_request)
Requested(j, max_keys) ==
    [jobs EXCEPT ![j].requests =
        Append(@, [start_after |-> jobs[j].file_iterator, max_keys |-> max_keys])]

\* history: and the request was answered with the page
Answered(j, max_keys, outcome) ==
    [Requested(j, max_keys) EXCEPT ![j].pages =
        Append(@, [keys |-> KeysOf(outcome.Contents),
                   is_truncated |-> outcome.IsTruncated])]

\* one turn of the loop of runSubrequest in task j: the request succeeds, the
\* page is inserted, and the task stops, throws (the last key has a symbol
\* outside the alphabet) or moves its start_after
SubrequestPage(j) ==
    LET job == jobs[j]
        max_keys == MaxKeys(job.first_request)
        outcome == ListObjectsV2(store, path_prefix, job.file_iterator, max_keys)
        contents == outcome.Contents
        back_name == Substr(Last(contents).Key, Len(path_prefix))
        answered == Answered(j, max_keys, outcome) IN
    /\ j \in 1..Len(jobs)
    /\ job.state = "running"
    /\ queue_' = insertObjects(contents)
    /\ IF ~outcome.IsTruncated \/ contents = <<>>
       THEN /\ jobs' = [answered EXCEPT ![j].state = "done", ![j].first_request = FALSE]
            /\ UNCHANGED first_exception
       ELSE IF ThrowsBadArguments(back_name)
       THEN /\ jobs' = Throws(answered, j, "BAD_ARGUMENTS")
            /\ first_exception' = Capture("BAD_ARGUMENTS")
       ELSE IF PastWindow(job.end_file, back_name)
       THEN /\ jobs' = [answered EXCEPT ![j].state = "done", ![j].first_request = FALSE]
            /\ UNCHANGED first_exception
       ELSE /\ jobs' = [answered EXCEPT ![j].file_iterator = Last(contents).Key,
                                        ![j].first_request = FALSE]
            /\ UNCHANGED first_exception
    /\ UNCHANGED <<config, aside, next_start_after, cache_builded, extracted_keys,
                   key_to_object, pc, result, thrown, batch, truncated, file_end, distance,
                   emitted, call_start_after, live_requests, calls, path, cycles_started,
                   cycles_completed, failures>>

\* the request of task j fails: the task throws S3Exception
SubrequestFails(j) ==
    /\ j \in 1..Len(jobs)
    /\ jobs[j].state = "running"
    /\ failures < MaxFailures
    /\ failures' = failures + 1
    /\ jobs' = Throws(Requested(j, MaxKeys(jobs[j].first_request)), j, "S3_ERROR")
    /\ first_exception' = Capture("S3_ERROR")
    /\ UNCHANGED <<config, aside, next_start_after, cache_builded, cache, pc, result,
                   thrown, batch, truncated, file_end, distance, emitted, call_start_after,
                   live_requests, calls, path, cycles_started, cycles_completed>>

\* fillCache going on to cache.build() without waiting for the tasks
WaitAndBuild_NoWait ==
    /\ pc = "waiting"
    /\ IF first_exception # "none"
       THEN /\ result' = "throw"
            /\ thrown' = first_exception
            /\ pc' = "idle"
            /\ UNCHANGED <<cache_builded, cache, cycles_completed>>
       ELSE /\ build
            /\ thrown' = "none"
            /\ cache_builded' = CacheBuildedAfterFill
            /\ cycles_completed' = cycles_completed + 1
            /\ result' = IF truncated THEN "true" ELSE "false"
            /\ pc' = IF truncated THEN "idle" ELSE "exhausted"
    /\ UNCHANGED <<config, aside, next_start_after, batch, truncated, fill, emitted,
                   call_start_after, live_requests, calls, path, cycles_started, failures>>

\* cache.build() and cache_builded = false made even when wait() rethrows
WaitAndBuild_BuildsAnyway ==
    /\ pc = "waiting"
    /\ Finished = 1..Len(jobs)
    /\ build
    /\ cache_builded' = CacheBuildedAfterFill
    /\ cycles_completed' = cycles_completed + 1
    /\ thrown' = first_exception
    /\ result' = IF first_exception # "none" THEN "throw"
                 ELSE IF truncated THEN "true" ELSE "false"
    /\ pc' = IF first_exception = "none" /\ ~truncated THEN "exhausted" ELSE "idle"
    /\ UNCHANGED <<config, aside, next_start_after, batch, truncated, fill, emitted,
                   call_start_after, live_requests, calls, path, cycles_started,
                   failures>>

\* pool_requests.wait() returns when every task has finished and rethrows the
\* first exception; otherwise cache.build(), cache_builded = false and the
\* return of the (truncated) live page's flag
WaitAndBuild ==
    /\ pc = "waiting"
    /\ Finished = 1..Len(jobs)
    /\ IF first_exception # "none"
       THEN /\ result' = "throw"
            /\ thrown' = first_exception
            /\ pc' = "idle"
            /\ UNCHANGED <<cache_builded, cache, cycles_completed>>
       ELSE /\ build
            /\ thrown' = "none"
            /\ cache_builded' = CacheBuildedAfterFill
            /\ cycles_completed' = cycles_completed + 1
            /\ result' = IF truncated THEN "true" ELSE "false"
            /\ pc' = IF truncated THEN "idle" ELSE "exhausted"
    /\ UNCHANGED <<config, aside, next_start_after, batch, truncated, fill, emitted,
                   call_start_after, live_requests, calls, path, cycles_started, failures>>

\* ----------------------------------------------------------------- Next

Next ==
    \/ ServeFromCache
    \/ LiveFails
    \/ LiveEmptyPage
    \/ LivePage
    \/ LivePagePrefetch
    \/ ScheduleSubrequest
    \/ \E j \in 1..MaxParallelRequests : StartJob(j)
    \/ \E j \in 1..MaxParallelRequests : SubrequestPage(j)
    \/ \E j \in 1..MaxParallelRequests : SubrequestFails(j)
    \/ WaitAndBuild

Spec == Init /\ [][Next]_vars

\* ------------------------------------------------ what the claims speak of

\* the keys of the bucket under the prefix
UnderPrefix == {k \in store : StartsWith(k, path_prefix)}

\* every key under the prefix is made of symbols of the alphabet
AlphabetConformant ==
    \A k \in UnderPrefix : ~ThrowsBadArguments(Substr(k, Len(path_prefix)))

RECURSIVE SequentialFrom(_)
\* the keys a pure sequential listing emits from start_after on: page after
\* page, each continued from the last key of the one before
SequentialFrom(start_after) ==
    LET page == ListObjectsV2(store, path_prefix, start_after, max_list_size) IN
    KeysOf(page.Contents) \o
        (IF page.IsTruncated THEN SequentialFrom(Last(page.Contents).Key) ELSE <<>>)

SequentialListing == SequentialFrom(<<>>)

\* number of times key k was emitted
TimesEmitted(k) == Cardinality({i \in 1..Len(emitted) : emitted[i] = k})

\* the iteration ended: getBatchAndCheckNext returned false
Exhausted == pc = "exhausted"

\* the iteration ended with a live page that had objects and was not truncated
ExhaustedByLastPage == Exhausted /\ path = "live"

\* C1: with use_parallel_listing and alphabet-conformant keys, an iteration
\* that ran without endpoint error until getBatchAndCheckNext returned false
\* (after a last live page with objects) has emitted every key under the
\* prefix exactly once: the multiset of the pure sequential listing.
C1_ParallelEmitsSequentialMultiset ==
    (use_parallel_listing /\ AlphabetConformant /\ ExhaustedByLastPage /\ failures = 0)
        => /\ \A k \in SeqToSet(SequentialListing) : TimesEmitted(k) = 1
           /\ SeqToSet(emitted) \subseteq SeqToSet(SequentialListing)

IsPrefixOf(a, b) == Len(a) <= Len(b) /\ SubSeq(b, 1, Len(a)) = a

\* C2: with use_parallel_listing = false the emitted keys are, call after
\* call, the sequence of the pure sequential listing (all of it at the false
\* return); every call issues exactly one list request, from the last key
\* emitted before it (empty at first); no task is scheduled and the cache
\* never holds an object.
C2_SequentialWhenParallelDisabled ==
    ~use_parallel_listing =>
        /\ IsPrefixOf(emitted, SequentialListing)
        /\ Exhausted => emitted = SequentialListing
        /\ Len(live_requests) = calls
        /\ \A i \in 1..Len(live_requests) :
              live_requests[i].start_after =
                  IF live_requests[i].emitted_before = 0 THEN <<>>
                  ELSE emitted[live_requests[i].emitted_before]
        /\ jobs = <<>> /\ cycles_started = 0
        /\ extracted_keys = <<>> /\ DOMAIN key_to_object = {} /\ queue_ = EmptyBag

\* a sequential iteration of at least two pages that reached the false return
C2_Witness ==
    /\ ~use_parallel_listing
    /\ Exhausted
    /\ Len(live_requests) >= 2
    /\ Len(emitted) >= 3
    /\ emitted = SequentialListing

\* C3: the emitted keys are strictly ascending over the whole iteration, live
\* pages and cache batches mixed: no key is emitted twice.
C3_EmittedStrictlyAscending ==
    \A i \in 1..Len(emitted) : \A j \in (i + 1)..Len(emitted) :
        LexLess(emitted[i], emitted[j])

\* a live page, then a batch from the cache, then a live page again
C3_Witness ==
    /\ cycles_completed = 1
    /\ calls > Len(live_requests)
    /\ path = "live"
    /\ Len(emitted) >= 3

\* C4: the first live call answers an empty page, not truncated: the call
\* returns false with an empty batch, leaves next_start_after as it was and
\* starts no task.
C4_EmptyPrefixReturnsFalse ==
    (calls = 1 /\ path = "live_empty" /\ UnderPrefix = {})
        => /\ pc = "exhausted" /\ result = "false"
           /\ batch = <<>>
           /\ next_start_after = call_start_after
           /\ jobs = <<>>

\* C5: the call returns true exactly when it served a full batch from the
\* cache or its live page was truncated; it returns false only after a live
\* page that was not truncated, and then no key under the prefix is greater
\* than next_start_after.
C5_ReturnValue ==
    /\ result = "true" =>
          \/ path = "cache" /\ Len(batch) = max_list_size
          \/ path \in {"live", "live_prefetch"} /\ truncated
    /\ result = "false" =>
          /\ path \in {"live", "live_empty"} /\ ~truncated
          /\ \A k \in UnderPrefix : ~LexLess(next_start_after, k)

\* the last call took the live path
LiveSucceeded == path \in {"live", "live_prefetch", "live_empty"}

\* C6: fillCache is entered exactly by a call whose live request succeeded
\* with a truncated page while use_parallel_listing and cache_builded held;
\* the cache is cleared while tasks are scheduled and run, and cache_builded
\* is false when that call returns. A page that is not truncated starts none.
C6_PrefetchStartedIff ==
    [][ /\ (cycles_started' # cycles_started) <=>
              /\ calls' # calls
              /\ LiveSucceeded'
              /\ truncated' /\ use_parallel_listing /\ cache_builded
        /\ (pc' \in {"scheduling", "waiting"}) =>
              extracted_keys' = <<>> /\ DOMAIN key_to_object' = {}
        /\ (jobs' # jobs) => truncated'
        /\ (pc = "waiting" /\ pc' = "idle" /\ result' # "throw") => ~cache_builded'
      ]_vars

\* a prefetch has dispatched its tasks
C6_Witness ==
    /\ pc = "waiting"
    /\ Len(jobs) = num_parallel_requests
    /\ cycles_started = 1

\* C7: cache_builded is true at first, becomes false when a prefetch cycle
\* completes and never becomes true again: at most one cycle completes, and
\* no later call schedules a task.
C7_CacheBuildedOnlyFalls ==
    /\ cache_builded = TRUE
    /\ [][ /\ cache_builded' => cache_builded
           /\ (cache_builded /\ ~cache_builded') <=> (cycles_completed' = cycles_completed + 1)
           /\ cycles_completed' <= 1
           /\ ~cache_builded => (jobs' = jobs /\ cycles_started' = cycles_started)
         ]_vars

\* a truncated live page after the one cycle that completed
C7_Witness ==
    /\ ~cache_builded
    /\ cycles_completed = 1
    /\ path = "live" /\ truncated

\* C8 as claimed: after a completed cycle, a later truncated live page starts
\* a new prefetch cycle.
C8_NewCycleAfterCacheExhausted ==
    (cycles_completed >= 1 /\ use_parallel_listing /\ truncated
        /\ path \in {"live", "live_prefetch"})
        => path = "live_prefetch"

\* C8 as amended: after a completed cycle a truncated live page is a plain
\* live page: it returns true, the cache is neither cleared nor rebuilt and no
\* task is scheduled.
C8_NoNewCycleAfterCompletedOne ==
    [][ (cycles_completed >= 1 /\ calls' # calls /\ LiveSucceeded' /\ truncated')
            => /\ path' = "live" /\ result' = "true" /\ pc' = "idle"
               /\ UNCHANGED <<cache, jobs, cycles_started, cycles_completed>>
      ]_vars

\* the cache went short, live paging resumed and the live page is truncated
C8_Witness ==
    /\ cycles_completed = 1
    /\ use_parallel_listing
    /\ path = "live" /\ truncated /\ result = "true"
    /\ calls > Len(live_requests)

\* C9: when getBatchAndCheckNext throws, next_start_after has the value it
\* had before the call.
C9_CursorUnchangedOnThrow ==
    result = "throw" => next_start_after = call_start_after

\* C10: between calls next_start_after is the key of the last object emitted
\* (empty before anything was emitted).
C10_CursorIsLastEmitted ==
    pc \in {"idle", "exhausted"} =>
        next_start_after = (IF emitted = <<>> THEN <<>> ELSE Last(emitted))

\* --------------------------------------------------- failed prefetch cycle

\* the last call was a prefetch cycle that ended with a task's exception
CycleFailed ==
    result = "throw" /\ path = "live_prefetch" /\ jobs # <<>>

C12_CacheClearedAfterFailedCycle ==
    CycleFailed =>
        /\ extracted_keys = <<>>
        /\ DOMAIN key_to_object = {}
        /\ queue_ = EmptyBag

\* ------------------------------------------------- keys off the alphabet

\* the key has a symbol outside the alphabet after the prefix
OffAlphabet(key) ==
    LET name == Substr(key, Len(path_prefix))
    IN \E i \in 1..Len(name) : name[i] \notin SeqToSet(alphabet)

\* the page the last call listed: the batch of a live call
LivePageOfCall ==
    KeysOf(ListObjectsV2(store, path_prefix, call_start_after, max_list_size).Contents)

\* the last call failed with BAD_ARGUMENTS before a task was scheduled, its
\* live page kept as the batch and its last key as the cursor
FailedBeforeRequests ==
    /\ pc = "idle" /\ result = "throw" /\ thrown = "BAD_ARGUMENTS"
    /\ jobs = <<>>
    /\ batch = LivePageOfCall /\ batch # <<>>
    /\ next_start_after = Last(batch)

\* C13 as stated: when some key under the prefix has a symbol outside the
\* alphabet, the first prefetch attempt fails with BAD_ARGUMENTS before any
\* task is scheduled; the batch is the live page and the cursor its last key.
C13_AnyKeyOffAlphabetFailsFirstPrefetch ==
    (~AlphabetConformant /\ cycles_started = 1 /\ path = "live_prefetch")
        => FailedBeforeRequests

\* C13 as amended: when the first or the last key of the truncated live page
\* of a prefetch attempt has a symbol outside the alphabet, the attempt fails
\* with BAD_ARGUMENTS before any task is scheduled; the batch is that live
\* page and the cursor its last key.
C13_PageEndsOffAlphabetFailsPrefetch ==
    (/\ path = "live_prefetch"
     /\ batch # <<>>
     /\ OffAlphabet(batch[1]) \/ OffAlphabet(Last(batch)))
        => FailedBeforeRequests

\* a page of two keys, the last one off the alphabet, stopped the attempt
C13_Witness ==
    /\ path = "live_prefetch" /\ thrown = "BAD_ARGUMENTS" /\ jobs = <<>>
    /\ Len(batch) = 2
    /\ ~OffAlphabet(batch[1]) /\ OffAlphabet(batch[2])
    /\ next_start_after = batch[2]

\* --------------------------------------------------------- scenario S4

\* a dense block of n keys of equal length: letter0, letter1, ...
Block(letter, n) == {path_prefix \o <<letter, 48 + i>> : i \in 0..(n - 1)}

\* scenario S4 scaled down: two blocks "a0".. and "b0".. of n keys each, the
\* page size equal to a block, one sub-range request, multiplication 0.9
InitS4 ==
    /\ \E n \in 1..MaxBlock :
        /\ store = Block(97, n) \cup Block(98, n)
        /\ max_list_size = n
    /\ use_parallel_listing = TRUE
    /\ num_workers \in 1..MaxWorkers
    /\ num_parallel_requests = 1
    /\ multiplication_length = Float_0_9
    /\ Constructed
    /\ OthersIdle
    /\ cache_use = NoCacheUse
    /\ arith = NoArith

SpecS4 == InitS4 /\ [][Next]_vars

\* the first and the last key of the first block, after the prefix
S4First == <<97, 48>>
S4Last == <<97, 48 + max_list_size - 1>>

\* the one task scheduled in S4 has the window the scenario gives it
S4Window ==
    /\ Len(jobs) <= 1
    /\ \A j \in 1..Len(jobs) :
        /\ jobs[j].start_file = FileRepresentation(S4Last) + 1
        /\ jobs[j].end_file - jobs[j].start_file
            = (9 * (FileRepresentation(S4Last) - FileRepresentation(S4First))) \div 10
    /\ cycles_started >= 1 => emitted[max_list_size] = path_prefix \o S4Last

\* at the false return every key of the store was emitted exactly once
S4Complete ==
    Exhausted =>
        /\ SeqToSet(emitted) = store
        /\ Len(emitted) = Cardinality(store)

\* C14 as stated: in S4 the one task has the window starting at
\* KeyNumber(last) + 1 of width 0.9 * (KeyNumber(last) - KeyNumber(first)),
\* a call after the first is served from the cache before the last, live one,
\* and at the false return the emitted keys are the store without duplicates.
C14_S4DrainsCacheThenLiveLists ==
    /\ S4Window
    /\ S4Complete
    /\ (Exhausted /\ max_list_size >= 2 /\ failures = 0)
            => (calls > Len(live_requests) /\ path \in {"live", "live_empty"})

\* C14 as amended (blocks of two keys or more): the one task has that
\* window, it caches only its probe, the first key of the second block; that
\* is less than a batch, so no call is served from the cache and the calls
\* after the first live-list; at the false return the emitted keys are the
\* store without duplicates.
C14_S4CachesProbeThenLiveLists ==
    max_list_size >= 2 =>
        /\ S4Window
        /\ S4Complete
        /\ cycles_completed >= 1 => extracted_keys = <<path_prefix \o <<98, 48>>>>
        /\ calls = Len(live_requests)
        /\ \A r \in 1..Len(live_requests) :
                live_requests[r].start_after \in {<<>>, path_prefix \o S4Last}

\* S4 with blocks of two keys ran to the false return without an error
C14_Witness ==
    /\ Exhausted /\ failures = 0
    /\ max_list_size >= 2
    /\ cycles_completed = 1
    /\ calls = 2
    /\ Len(emitted) = 2 * max_list_size

\* ------------------------------------------------- a QueryCache used alone

\* the keys of the objects given to the cache: "pa1", "pa2", "pb"
CacheKeys == {<<112, 97, 49>>, <<112, 97, 50>>, <<112, 98>>}

\* the vectors of objects given to insertObjects: listing pages of these keys
CachePages ==
    {[i \in 1..Len(SortKeys(S)) |-> Object(SortKeys(S)[i])] :
        S \in (SUBSET CacheKeys) \ {{}}}

\* the filename_after arguments: none, a key given to the cache, a later key
QueryKeys == CacheKeys \cup {<<>>, <<112, 99>>}

CacheUse(op) == [NoCacheUse EXCEPT !.op = op, !.cleared = cache_use.cleared]

\* a call on the cache alone leaves the iterator as it is
IteratorUnchanged ==
    UNCHANGED <<config, lifetime, listing, holder, balancing, next_start_after, cache_builded, pc, result, thrown, batch,
                truncated, fill, emitted, call_start_after, live_requests, calls,
                path, cycles_started, cycles_completed, failures>>

CacheInsert(objects) ==
    /\ BagCardinality(queue_) + Len(objects) <= MaxStaged
    /\ queue_' = insertObjects(objects)
    /\ cache_use' = [CacheUse("insertObjects") EXCEPT !.objects = objects]
    /\ UNCHANGED <<extracted_keys, key_to_object, arith>>
    /\ IteratorUnchanged

CacheBuild ==
    /\ build
    /\ cache_use' = [CacheUse("build") EXCEPT !.objects = PopAll(queue_),
                                             !.before = extracted_keys,
                                             !.cleared = FALSE]
    /\ UNCHANGED arith
    /\ IteratorUnchanged

CacheClear ==
    /\ clear
    /\ cache_use' = [CacheUse("clear") EXCEPT !.cleared = TRUE]
    /\ UNCHANGED <<queue_, arith>>
    /\ IteratorUnchanged

CacheGet(filename_after, count) ==
    /\ cache_use' = [CacheUse("getBatchFrom") EXCEPT
                        !.filename_after = filename_after,
                        !.count = count,
                        !.objects = getBatchFrom(filename_after, count),
                        !.turn = 1 - cache_use.turn]
    /\ UNCHANGED <<cache, arith>>
    /\ IteratorUnchanged

InitCache ==
    /\ store = {}
    /\ max_list_size = 1
    /\ use_parallel_listing = FALSE
    /\ num_workers = 1
    /\ num_parallel_requests = 1
    /\ multiplication_length = Float_1_0
    /\ Constructed
    /\ OthersIdle
    /\ cache_use = NoCacheUse
    /\ arith = NoArith

NextCache ==
    \/ \E objects \in CachePages : CacheInsert(objects)
    \/ CacheBuild
    \/ CacheClear
    \/ \E filename_after \in QueryKeys, count \in 1..MaxCount :
            CacheGet(filename_after, count)

SpecCache == InitCache /\ [][NextCache]_vars

\* the keys of the built cache greater than the key
GreaterCached(key) == {x \in SeqToSet(extracted_keys) : LexLess(key, x)}

\* the count smallest of them
SmallestGreater(key, count) ==
    {x \in GreaterCached(key) :
        Cardinality({y \in GreaterCached(key) : LexLess(y, x)}) < count}

\* the last call on the cache was getBatchFrom
Got == cache_use.op = "getBatchFrom"

\* C15: getBatchFrom(filename_after, count) returns at most count objects,
\* their keys strictly ascending and all greater than filename_after: the
\* count smallest keys of the built cache greater than filename_after, each
\* with the object of its key; the same call made again returns the same.
C15_getBatchFromSmallestGreater ==
    /\ [](Got =>
            LET got == KeysOf(cache_use.objects) IN
            /\ Len(got) <= cache_use.count
            /\ \A i \in 1..(Len(got) - 1) : LexLess(got[i], got[i + 1])
            /\ \A i \in 1..Len(got) : LexLess(cache_use.filename_after, got[i])
            /\ SeqToSet(got) = SmallestGreater(cache_use.filename_after, cache_use.count)
            /\ \A i \in 1..Len(got) : cache_use.objects[i] = key_to_object[got[i]])
    /\ [][(/\ Got /\ Got'
           /\ cache_use'.filename_after = cache_use.filename_after
           /\ cache_use'.count = cache_use.count)
            => cache_use'.objects = cache_use.objects]_vars

\* the cache holds three keys and two objects are asked past the first key
C15_Witness ==
    /\ Got
    /\ Len(extracted_keys) = 3
    /\ cache_use.filename_after = extracted_keys[1]
    /\ cache_use.count = 2
    /\ KeysOf(cache_use.objects) = <<extracted_keys[2], extracted_keys[3]>>

\* C16: when getBatchFrom(filename_after, count) returns fewer than count
\* objects, every key of the built cache greater than filename_after is the
\* key of a returned object.
C16_ShortBatchMeansExhausted ==
    (Got /\ Len(cache_use.objects) < cache_use.count)
        => GreaterCached(cache_use.filename_after) \subseteq SeqToSet(KeysOf(cache_use.objects))

\* a short batch that is not empty, from a cache with smaller keys too
C16_Witness ==
    /\ Got
    /\ cache_use.objects # <<>>
    /\ Len(cache_use.objects) < cache_use.count
    /\ Len(extracted_keys) > Len(cache_use.objects)

\* C17: after build(), whatever inserts, builds and clears came before,
\* extracted_keys is strictly ascending (sorted, no duplicates) and the keys
\* of key_to_object are those of extracted_keys, each with one object of
\* that key; clear() and insertObjects keep it so.
C17_BuildSortedUniqueConsistent ==
    /\ \A i \in 1..(Len(extracted_keys) - 1) :
            LexLess(extracted_keys[i], extracted_keys[i + 1])
    /\ DOMAIN key_to_object = SeqToSet(extracted_keys)
    /\ \A key \in DOMAIN key_to_object : key_to_object[key] = Object(key)

\* a second build() without clear() popped a key twice and a key the first
\* build() had already extracted
C17_Witness ==
    /\ cache_use.op = "build"
    /\ cache_use.before # <<>>
    /\ \E i \in 1..Len(cache_use.objects) : cache_use.objects[i].Key \in SeqToSet(cache_use.before)
    /\ \E i, j \in 1..Len(cache_use.objects) : i < j /\ cache_use.objects[i] = cache_use.objects[j]
    /\ Len(extracted_keys) >= 2

\* C18: insertObjects changes no result of getBatchFrom (the objects wait
\* for build()), and from clear() to the next build() getBatchFrom returns
\* nothing.
C18_StagedObjectsInvisible ==
    /\ [][cache_use'.op = "insertObjects" =>
            \A key \in QueryKeys, count \in 1..MaxCount :
                getBatchFrom(key, count)' = getBatchFrom(key, count)]_vars
    /\ [](cache_use.cleared =>
            \A key \in QueryKeys, count \in 1..MaxCount : getBatchFrom(key, count) = <<>>)

\* after clear() and an insert getBatchFrom returned nothing although a
\* staged key is greater than filename_after
C18_Witness ==
    /\ Got
    /\ cache_use.cleared
    /\ cache_use.objects = <<>>
    /\ \E o \in BagToSet(queue_) : LexLess(cache_use.filename_after, o.Key)

\* C19: after clear() the cache holds nothing, staged objects included.
C19_ClearResetsStaged ==
    cache_use.op = "clear" =>
        /\ extracted_keys = <<>>
        /\ DOMAIN key_to_object = {}
        /\ queue_ = EmptyBag

\* --------------------------------------- a FileRepresentation used alone

\* the symbols of the filenames: '!' (the lowest of the alphabet), '0', 'a',
\* '~' (the highest) and '/', which is not in the alphabet
ArithSymbols == {33, 48, 97, 126, 47}

RECURSIVE Filenames(_)
\* the strings of at most n of these symbols
Filenames(n) ==
    IF n = 0
    THEN {<<>>}
    ELSE Filenames(n - 1) \cup
            {Append(s, c) : s \in {t \in Filenames(n - 1) : Len(t) = n - 1},
                            c \in ArithSymbols}

\* no call on the arithmetic touches the iterator or its cache
ArithOnly ==
    UNCHANGED <<config, cache_use, lifetime, listing, holder, balancing, next_start_after, cache_builded, cache, pc, result,
                thrown, batch, truncated, fill, emitted, call_start_after,
                live_requests, calls, path, cycles_started, cycles_completed, failures>>

\* FileRepresentation(filename): the number, or BAD_ARGUMENTS
ArithEncode ==
    /\ arith.pc = "given"
    /\ arith' = IF ThrowsBadArguments(arith.filename)
                THEN [arith EXCEPT !.pc = "thrown"]
                ELSE [arith EXCEPT !.pc = "encoded",
                                   !.number = FileRepresentation(arith.filename)]
    /\ ArithOnly

\* toString() of the number
ArithDecode ==
    /\ arith.pc = "encoded"
    /\ arith' = [arith EXCEPT !.pc = "decoded", !.decoded = toString(arith.number)]
    /\ ArithOnly

\* file_end + FileRepresentation(1) + distance * 0, then toString(): the
\* start_after (after the prefix) of the first task's first request
ArithProbe ==
    /\ arith.pc = "encoded"
    /\ arith' = [arith EXCEPT !.pc = "probe", !.decoded = toString(arith.number + 1)]
    /\ ArithOnly

\* toString() of a number that came from no filename
ArithToString ==
    /\ arith.pc = "number"
    /\ arith' = IF toStringThrows(arith.number)
                THEN [arith EXCEPT !.pc = "toString thrown"]
                ELSE [arith EXCEPT !.pc = "string", !.decoded = toString(arith.number)]
    /\ ArithOnly

\* FileRepresentation(std::string) of that string
ArithReencode ==
    /\ arith.pc = "string"
    /\ arith' = IF ThrowsBadArguments(arith.decoded)
                THEN [arith EXCEPT !.pc = "thrown"]
                ELSE [arith EXCEPT !.pc = "reencoded",
                                   !.again = FileRepresentation(arith.decoded)]
    /\ ArithOnly

InitArith ==
    /\ store = {}
    /\ max_list_size = 1
    /\ use_parallel_listing = FALSE
    /\ num_workers = 1
    /\ num_parallel_requests = 1
    /\ multiplication_length = Float_1_0
    /\ Constructed
    /\ OthersIdle
    /\ cache_use = NoCacheUse
    /\ arith \in {[NoArith EXCEPT !.pc = "given", !.filename = s] : s \in Filenames(MaxKeyLen)}
                \cup {[NoArith EXCEPT !.pc = "number", !.number = n] : n \in 0..MaxNumber}

NextArith ==
    \/ ArithEncode
    \/ ArithDecode
    \/ ArithProbe
    \/ ArithToString
    \/ ArithReencode

SpecArith == InitArith /\ [][NextArith]_vars

\* C20: for every filename made of symbols of the alphabet, those beginning
\* with '!' included, toString(FileRepresentation(filename)) is the filename.
C20_DecodeOfEncodeIsFilename ==
    arith.pc = "decoded" => arith.decoded = arith.filename

\* the number of base-64 digits of the number, none for zero
RECURSIVE DigitCount(_)
DigitCount(number) == IF number > 0 THEN 1 + DigitCount(number \div AlphabetSize) ELSE 0

\* C21: for every number n >= 0, toString() does not throw, its result has
\* the base-64 digits of n as symbols, the most significant first (pushed
\* least significant first and reversed), the empty string for zero, and
\* FileRepresentation of that string is n.
C21_EncodeOfDecodeIsNumber ==
    /\ arith.pc \notin {"toString thrown"}
    /\ arith.pc \in {"string", "reencoded"} =>
        /\ Len(arith.decoded) = DigitCount(arith.number)
        /\ \A i \in 0..(Len(arith.decoded) - 1) :
                arith.decoded[Len(arith.decoded) - i]
                    = alphabet[((arith.number \div (AlphabetSize ^ i)) % AlphabetSize) + 1]
        /\ arith.number = 0 => arith.decoded = <<>>
    /\ arith.pc = "string" => ~ThrowsBadArguments(arith.decoded)
    /\ arith.pc = "reencoded" => arith.again = arith.number

\* 4096 was decoded to "0!!", three digits, and encoded again
C21_Witness ==
    /\ arith.pc = "reencoded"
    /\ arith.number = AlphabetSize * AlphabetSize
    /\ arith.decoded = <<48, 33, 33>>
    /\ arith.again = arith.number

\* C22: the symbols of the alphabet are in ascending character order, and
\* for alphabet-conformant filenames a, b of equal length with a < b
\* (byte-wise) FileRepresentation(a) < FileRepresentation(b).
C22_EncodeKeepsOrderOnEqualLength ==
    /\ \A i, j \in 1..Len(alphabet) : i < j => alphabet[i] < alphabet[j]
    /\ arith.pc = "encoded" =>
        \A b \in Filenames(Len(arith.filename)) :
            (/\ Len(b) = Len(arith.filename)
             /\ ~ThrowsBadArguments(b)
             /\ LexLess(arith.filename, b))
                => /\ arith.number < FileRepresentation(b)
                   /\ arith.number <= FileRepresentation(b)
                   /\ ~(FileRepresentation(b) <= arith.number)

\* "a~" was encoded; "~!" of the same length is greater
C22_Witness ==
    /\ arith.pc = "encoded"
    /\ arith.filename = <<97, 126>>
    /\ LexLess(arith.filename, <<126, 33>>)
    /\ arith.number = 37 * AlphabetSize + 63

\* C28: for every alphabet-conformant last key of a live page the start_after
\* of the first task's first request, toString(FileRepresentation(last) + 1)
\* after the prefix, is greater (byte-wise) than that last key.
C28_ProbeCursorPastLastEmitted ==
    arith.pc = "probe" => LexLess(arith.filename, arith.decoded)

\* ------------------------------------------------- requests of the tasks

\* the first request of every task asks one key after the prefix followed by
\* toString() of the task's start_file; every later one asks max_list_size
\* keys after the last key of the page before it
RequestsOfTasks ==
    \A j \in 1..Len(jobs) :
        \A r \in 1..Len(jobs[j].requests) :
            IF r = 1
            THEN /\ jobs[j].requests[r].max_keys = 1
                 /\ jobs[j].requests[r].start_after
                        = path_prefix \o toString(jobs[j].start_file)
            ELSE /\ jobs[j].requests[r].max_keys = max_list_size
                 /\ jobs[j].requests[r].start_after = Last(jobs[j].pages[r - 1].keys)

\* the requests of task j that asked for one key
Probes(j) == {r \in 1..Len(jobs[j].requests) : jobs[j].requests[r].max_keys = 1}

\* C25 as stated: the requests of the tasks are those, and no task issues
\* two requests with max_keys = 1.
C25_OneRequestOfOneKey ==
    /\ RequestsOfTasks
    /\ \A j \in 1..Len(jobs) : Cardinality(Probes(j)) <= 1

\* C25 as amended: the requests of the tasks are those; a task issues two
\* requests with max_keys = 1 only when max_list_size = 1, where every later
\* request asks one key as well.
C25_FirstRequestIsTheProbe ==
    /\ RequestsOfTasks
    /\ \A j \in 1..Len(jobs) :
        IF max_list_size = 1
        THEN Probes(j) = 1..Len(jobs[j].requests)
        ELSE Probes(j) \subseteq {1}

\* a task went on after its probe with a request of max_list_size = 2 keys
C25_Witness ==
    /\ max_list_size = 2
    /\ \E j \in 1..Len(jobs) :
        /\ Len(jobs[j].requests) >= 2
        /\ jobs[j].requests[1].max_keys = 1
        /\ jobs[j].requests[2].max_keys = 2

\* ----------------------------------------------- keys of different lengths

\* keys of one and of two symbols under the prefix: "a", "d", "f", "f1", "g",
\* "h"; "f1" lies between "f" and "g" and its number is beyond both
MixedKeys ==
    {path_prefix \o r : r \in {<<97>>, <<100>>, <<102>>, <<102, 49>>, <<103>>, <<104>>}}

InitMixed ==
    /\ store \in {S \cup {OutsideKey} : S \in SUBSET MixedKeys}
    /\ max_list_size \in 1..MaxListSize
    /\ use_parallel_listing = TRUE
    /\ num_workers \in 1..MaxWorkers
    /\ num_parallel_requests \in 1..MaxParallelRequests
    /\ multiplication_length \in Multiplications
    /\ Constructed
    /\ OthersIdle
    /\ cache_use = NoCacheUse
    /\ arith = NoArith

SpecMixed == InitMixed /\ [][Next]_vars

\* the number of the key after the prefix
KeyNumber(key) == FileRepresentation(Substr(key, Len(path_prefix)))

\* during a cycle every page a task received is in the staging stack
PagesInserted ==
    pc \in {"scheduling", "waiting"} =>
        \A j \in 1..Len(jobs) : \A r \in 1..Len(jobs[j].pages) :
            \A i \in 1..Len(jobs[j].pages[r].keys) :
                Object(jobs[j].pages[r].keys[i]) \in BagToSet(queue_)

\* after page r task j goes on exactly when the page is truncated, has
\* objects and its last key is below end_file, and then from that last key
StopsOrContinues ==
    \A j \in 1..Len(jobs) : \A r \in 1..Len(jobs[j].pages) :
        LET page == jobs[j].pages[r]
            over == ~page.is_truncated \/ page.keys = <<>>
            last == Last(page.keys)
        IN IF r < Len(jobs[j].requests)
           THEN /\ ~over
                /\ ~OffAlphabet(last)
                /\ ~(jobs[j].end_file <= KeyNumber(last))
                /\ jobs[j].requests[r + 1].start_after = last
           ELSE IF over THEN jobs[j].state = "done"
           ELSE IF OffAlphabet(last) THEN jobs[j].error = "BAD_ARGUMENTS"
           ELSE IF jobs[j].end_file <= KeyNumber(last) THEN jobs[j].state = "done"
           ELSE jobs[j].state = "running" /\ jobs[j].file_iterator = last

\* C26: every page is inserted whole, the task stops exactly when the page is
\* not truncated, is empty or end_file <= KeyNumber(last key), otherwise goes
\* on from that key; and no task issues a request after it received a key
\* whose number is at or beyond end_file.
C26_NoRequestAfterKeyBeyondWindow ==
    /\ PagesInserted
    /\ StopsOrContinues
    /\ \A j \in 1..Len(jobs) : \A r \in 2..Len(jobs[j].requests) :
        \A q \in 1..(r - 1) : \A i \in 1..Len(jobs[j].pages[q].keys) :
            LET key == jobs[j].pages[q].keys[i]
            IN ~OffAlphabet(key) => KeyNumber(key) < jobs[j].end_file

\* -------------------------------------------------- windows of the tasks

\* the cycle of the last call is being planned or run
InCycle == path = "live_prefetch" /\ pc \in {"scheduling", "waiting"}

\* C29: the subtraction in fillCache never has a left operand below the right
\* one: the number of the first key of the live page is at most the number of
\* its last key, so distance and the bounds of every window are not negative.
C29_DistanceNeverNegative ==
    InCycle =>
        /\ KeyNumber(batch[1]) <= KeyNumber(Last(batch))
        /\ distance >= 0
        /\ \A j \in 1..Len(jobs) : jobs[j].start_file >= 0 /\ jobs[j].end_file >= 0

\* the product n * value / 2^23 is a whole number
ScalesExactly(n, value) ==
    /\ (n * (value % 4096)) % 4096 = 0
    /\ (n * (value \div 4096) + (n * (value % 4096)) \div 4096) % (FloatScale \div 4096) = 0

\* floor(n * value / 2^23) for any integer n
FloorScale(n, value) ==
    IF n >= 0 THEN ScaleDown(n, value)
    ELSE IF ScalesExactly(-n, value) THEN -ScaleDown(-n, value)
    ELSE -ScaleDown(-n, value) - 1

\* C27: task i of 0..N-1 has start_i = KeyNumber(last) + 1 + d * i and
\* end_i = start_i + d with d = floor(multiplication_length * (KeyNumber(last)
\* - KeyNumber(first))) for the first and last key of the live page; the
\* windows are contiguous, ordered and strictly beyond KeyNumber(last).
C27_WindowsContiguousOrderedBeyondLast ==
    InCycle =>
        LET last == KeyNumber(Last(batch))
            d == FloorScale(last - KeyNumber(batch[1]), multiplication_length)
        IN /\ \A j \in 1..Len(jobs) :
                /\ jobs[j].start_file = last + 1 + d * (j - 1)
                /\ jobs[j].end_file = jobs[j].start_file + d
                /\ jobs[j].start_file > last
           /\ \A j \in 1..(Len(jobs) - 1) :
                /\ jobs[j].end_file = jobs[j + 1].start_file
                /\ jobs[j].start_file <= jobs[j + 1].start_file

\* ------------------------------------------------- the source of a batch

LivePaths == {"live", "live_prefetch", "live_empty", "live_error"}

\* C30: the batch of a call has one source: the cache result of
\* max_list_size objects, with no list request, or the page of one list
\* request issued with start_after = next_start_after; a cache result shorter
\* than max_list_size is not emitted and not combined with the live page.
C30_BatchFromOneSource ==
    [][calls' # calls =>
        LET cache_result == getBatchFrom(next_start_after, max_list_size)
            page == ListObjectsV2(store, path_prefix, next_start_after, max_list_size).Contents
        IN \/ /\ path' = "cache"
              /\ Len(cache_result) = max_list_size
              /\ batch' = KeysOf(cache_result)
              /\ live_requests' = live_requests
           \/ /\ path' \in LivePaths
              /\ Len(cache_result) # max_list_size
              /\ Len(live_requests') = Len(live_requests) + 1
              /\ SubSeq(live_requests', 1, Len(live_requests)) = live_requests
              /\ Last(live_requests').start_after = next_start_after
              /\ batch' = IF path' = "live_error" THEN <<>> ELSE KeysOf(page)
    ]_vars

\* a call found a cache result with objects, but fewer than max_list_size,
\* and emitted a live page
C30_Witness ==
    LET cache_result == getBatchFrom(call_start_after, max_list_size) IN
    /\ path = "live"
    /\ cache_result # <<>>
    /\ Len(cache_result) < max_list_size
    /\ batch # <<>>

\* ------------------------------------------ the cache and the two sides

\* no task of pool_requests runs or waits for a thread
WorkersQuiet == Finished = 1..Len(jobs)

\* the step is made by the foreground and reads or writes the cache:
\* getBatchFrom() at the start of a call, clear() before a cycle, build()
\* at the end of one
ForegroundTouchesCache ==
    \/ calls' # calls
    \/ extracted_keys' # extracted_keys
    \/ key_to_object' # key_to_object
    \/ cycles_completed' # cycles_completed

\* the step is the insertObjects() of a task
WorkerInserts ==
    /\ Len(jobs') = Len(jobs)
    /\ \E j \in 1..Len(jobs) : Len(jobs'[j].pages) > Len(jobs[j].pages)

\* C24: the foreground and the tasks never touch the cache together:
\* getBatchFrom(), clear() and build() run only when no task is running or
\* can still insert, a task inserts only while the foreground is inside
\* fillCache, and build() comes after the last insert of the cycle.
C24_ForegroundAndWorkersApart ==
    /\ [][/\ ForegroundTouchesCache => WorkersQuiet
          /\ cycles_completed' # cycles_completed =>
                Len(jobs) = num_parallel_requests /\ jobs' = jobs
          /\ WorkerInserts =>
                /\ pc \in {"scheduling", "waiting"}
                /\ pc' = pc
                /\ ~ForegroundTouchesCache
       ]_vars
    /\ [](pc \notin {"scheduling", "waiting"} => WorkersQuiet)

\* a cycle in which tasks inserted pages has ended with build()
C24_Witness ==
    /\ path = "live_prefetch"
    /\ pc \in {"idle", "exhausted"}
    /\ cycles_completed >= 1
    /\ extracted_keys # <<>>
    /\ \E j \in 1..Len(jobs) : Len(jobs[j].pages) >= 2

\* ------------------------------------------------------ ~S3IteratorAsync

\* keys of one length, enough for a cycle whose tasks list several pages
DtorKeys == {path_prefix \o r : r \in {<<97, 49>>, <<97, 50>>, <<97, 51>>, <<97, 52>>}}

InitDtor ==
    /\ store \in {S \cup {OutsideKey} : S \in SUBSET DtorKeys}
    /\ max_list_size \in 1..MaxListSize
    /\ use_parallel_listing = TRUE
    /\ num_workers \in 1..MaxWorkers
    /\ num_parallel_requests \in 1..MaxParallelRequests
    /\ multiplication_length \in Multiplications
    /\ Constructed
    /\ OthersIdle
    /\ cache_use = NoCacheUse
    /\ arith = NoArith

\* everything but lifetime
IteratorState ==
    <<config, cache_use, arith, listing, holder, balancing, next_start_after,
      cache_builded, cache, pc, result, thrown, batch, truncated, fill, emitted,
      call_start_after, live_requests, calls, path, cycles_started,
      cycles_completed, failures>>

\* the destructor is entered: no call starts any more, a call made in the
\* background may still be inside fillCache
Destroy ==
    /\ lifetime = "alive"
    /\ pc # "crashed"
    /\ lifetime' = "destroying"
    /\ UNCHANGED IteratorState

\* deactivate() returns when the call in flight has returned
Deactivate ==
    /\ lifetime = "destroying"
    /\ pc \notin {"scheduling", "waiting"}
    /\ lifetime' = "deactivated"
    /\ UNCHANGED IteratorState

\* request.reset() and client.reset() before deactivate() has returned
Release_BeforeDeactivate ==
    /\ lifetime = "destroying"
    /\ lifetime' = "released"
    /\ UNCHANGED IteratorState

\* request.reset(); client.reset();
Release ==
    /\ lifetime = "deactivated"
    /\ lifetime' = "released"
    /\ UNCHANGED IteratorState

NextDtor ==
    \/ ServeFromCache
    \/ LiveFails
    \/ LiveEmptyPage
    \/ LivePage
    \/ LivePagePrefetch
    \/ ScheduleSubrequest
    \/ \E j \in 1..MaxParallelRequests : StartJob(j)
    \/ \E j \in 1..MaxParallelRequests : SubrequestPage(j)
    \/ \E j \in 1..MaxParallelRequests : SubrequestFails(j)
    \/ WaitAndBuild
    \/ Destroy
    \/ Deactivate
    \/ Release

SpecDtor == InitDtor /\ [][NextDtor]_vars

\* C23: when request.reset() and client.reset() execute, and ever after, no
\* task of pool_requests and no call is running or can still start, also when
\* the last cycle ended with an exception.
C23_ReleasedAfterWorkersStopped ==
    /\ [][lifetime' = "released" =>
            /\ WorkersQuiet
            /\ pc \notin {"scheduling", "waiting"}
            /\ UNCHANGED IteratorState
       ]_vars
    /\ [](lifetime = "released" => ~CanCall /\ WorkersQuiet)

\* the iterator was released after a cycle in which a task failed
C23_Witness ==
    /\ lifetime = "released"
    /\ path = "live_prefetch"
    /\ thrown = "S3_ERROR"
    /\ Failed # {}
    /\ \E j \in 1..Len(jobs) : jobs[j].state = "done" /\ jobs[j].pages # <<>>

\* ------------------------------------------------------ the terminal state

\* the keys of the bucket under the prefix beyond the cursor of the last call
LeftAtCall == {k \in store : StartsWith(k, path_prefix) /\ LexLess(call_start_after, k)}

\* C31 as stated: when a call has returned false, the last live page was not
\* truncated and the cache holds no entries.
C31_FalseMeansCacheEmpty ==
    result = "false" =>
        /\ path \in {"live", "live_empty"}
        /\ ~truncated
        /\ Cardinality(LeftAtCall) <= max_list_size
        /\ extracted_keys = <<>>

\* C31 as amended: when a call has returned false, the last live page was not
\* truncated and the cache holds fewer than max_list_size entries beyond the
\* cursor the call began with; entries of the last cycle may remain in it.
C31_FalseMeansCacheShort ==
    result = "false" =>
        /\ path \in {"live", "live_empty"}
        /\ ~truncated
        /\ Cardinality(LeftAtCall) <= max_list_size
        /\ Len(getBatchFrom(call_start_after, max_list_size)) < max_list_size

\* a call returned false while the cache of the last cycle still holds keys
C31_Witness ==
    /\ result = "false"
    /\ path = "live"
    /\ batch # <<>>
    /\ extracted_keys # <<>>

\* --------------------------------------------- the cache a cycle builds

\* the last call ran a cycle that ended with build()
CycleBuilt ==
    /\ path = "live_prefetch"
    /\ pc \in {"idle", "exhausted"}
    /\ thrown = "none"

\* the keys of every page the tasks of the cycle received
ReceivedKeys ==
    UNION {UNION {SeqToSet(jobs[j].pages[r].keys) : r \in 1..Len(jobs[j].pages)} :
                j \in 1..Len(jobs)}

\* C32: after a successful cycle the keys of the built cache are the keys of
\* the pages its tasks received, whatever the order of the tasks' steps:
\* none is lost, and each is a key of the bucket under the prefix.
C32_CacheIsWhatTasksReceived ==
    CycleBuilt =>
        /\ SeqToSet(extracted_keys) = ReceivedKeys
        /\ DOMAIN key_to_object = ReceivedKeys
        /\ ReceivedKeys \subseteq UnderPrefix
        /\ queue_ = EmptyBag

\* ------------------------------------------------------------ termination

\* keys of one and two symbols, one of them with a symbol off the alphabet
LiveKeys ==
    {path_prefix \o r : r \in {<<97, 49>>, <<98>>, <<98, 47>>, <<99>>, <<100>>}}

InitLive ==
    /\ store \in {S \cup {OutsideKey} : S \in SUBSET LiveKeys}
    /\ max_list_size \in 1..MaxListSize
    /\ use_parallel_listing \in BOOLEAN
    /\ num_workers \in 1..MaxWorkers
    /\ num_parallel_requests \in 1..MaxParallelRequests
    /\ multiplication_length \in Multiplications
    /\ Constructed
    /\ OthersIdle
    /\ cache_use = NoCacheUse
    /\ arith = NoArith

\* a getBatchAndCheckNext call returns or throws out of fillCache; its own
\* list request, if it made one, succeeded
CallGoesOn == calls' = calls + 1 /\ path' # "live_error"

\* fillCache leaves pool_requests.wait(), which it can when no task is left
WaitReturns == pc = "waiting" /\ pc' # "waiting"

\* task j runs: it is in the loop of runSubrequest
InLoop(j) == j \in 1..Len(jobs) /\ jobs[j].state = "running"

\* task j receives the answer to a request
TaskAnswered(j) ==
    /\ Len(jobs') = Len(jobs)
    /\ j \in 1..Len(jobs)
    /\ Len(jobs'[j].pages) > Len(jobs[j].pages)

\* weak fairness of the steps of the foreground and of the threads of
\* pool_requests: the consumer goes on calling while it may, the loop of
\* fillCache and wait() go on, a free thread takes a task, a task in its
\* loop gets the answer to its request. For the steps that list the bucket
\* or build the cache the condition is written out, with the state
\* predicate that enables the step in place of ENABLED.
Fairness ==
    /\ []<>(~CanCall) \/ []<><<CallGoesOn>>_vars
    /\ WF_vars(ScheduleSubrequest)
    /\ []<>(~(pc = "waiting" /\ Finished = 1..Len(jobs))) \/ []<><<WaitReturns>>_vars
    /\ \A j \in 1..MaxParallelRequests : WF_vars(StartJob(j))
    /\ \A j \in 1..MaxParallelRequests : []<>(~InLoop(j)) \/ []<><<TaskAnswered(j)>>_vars

SpecLive == InitLive /\ [][Next]_vars /\ Fairness

\* task j is given to pool_requests and has not ended
Unfinished(j) == j \in 1..Len(jobs) /\ jobs[j].state \in {"queued", "running"}

\* the step is a request of task j after which the task goes on
TaskGoesOn(j) ==
    /\ Len(jobs') = Len(jobs)
    /\ j \in 1..Len(jobs)
    /\ Len(jobs'[j].requests) > Len(jobs[j].requests)
    /\ jobs'[j].state = "running"

\* C33: every request after which a task goes on moves its start_after
\* strictly forward, every task ends, and so every cycle ends: fillCache
\* leaves pool_requests.wait().
C33_TasksAndCyclesEnd ==
    /\ [][\A j \in 1..MaxParallelRequests :
            TaskGoesOn(j) => LexLess(jobs[j].file_iterator, jobs'[j].file_iterator)
       ]_vars
    /\ \A j \in 1..MaxParallelRequests : Unfinished(j) ~> ~Unfinished(j)
    /\ InCycle ~> ~InCycle

\* a cycle has ended in which a task made three requests
C33_Witness ==
    /\ CycleBuilt
    /\ failures = 0
    /\ \E j \in 1..Len(jobs) : Len(jobs[j].requests) >= 3 /\ jobs[j].state = "done"

\* C34: with keys of the alphabet and an endpoint that always succeeds, every
\* call that returns true has moved next_start_after strictly forward, and
\* the repeated calls come to one that returns false, with parallel listing
\* and without.
C34_CallsAdvanceAndReturnFalse ==
    /\ [](AlphabetConformant /\ failures = 0 /\ result = "true" /\ pc = "idle" =>
            LexLess(call_start_after, next_start_after))
    /\ AlphabetConformant => <>(result = "false" \/ failures > 0)

\* ------------------------------------------- S3ObjectStorage::listObjects

MaxChildren == 2
MaxObjects == 3

\* a size_t is written as four limbs of 16 bits, the highest first
LimbBase == 65536

\* the size_t a - b of two small sizes: it wraps around below zero
SubSizeT(a, b) ==
    IF a >= b
    THEN <<0, 0, 0, a - b>>
    ELSE <<LimbBase - 1, LimbBase - 1, LimbBase - 1, LimbBase - (b - a)>>

\* keys_left <= 0 on a size_t: it is zero
NotPositive(size) == size = <<0, 0, 0, 0>>

\* static_cast<int>(size): the low 32 bits as a signed number
CastToInt(size) ==
    IF size[3] >= LimbBase \div 2
    THEN (size[3] - LimbBase) * LimbBase + size[4]
    ELSE size[3] * LimbBase + size[4]

\* the other variables of the module in a run of listObjects alone
ListingOnly ==
    UNCHANGED <<config, cache_use, arith, lifetime, holder, balancing, next_start_after,
                cache_builded, cache, pc, result, thrown, batch, truncated, fill,
                emitted, call_start_after, live_requests, calls, path,
                cycles_started, cycles_completed, failures>>

\* the request is set up: SetMaxKeys(max_keys), or list_object_keys_size
\* when max_keys is 0
ListObjectsSetup ==
    /\ listing.pc = "called"
    /\ listing' = [listing EXCEPT
            !.pc = "loop",
            !.request_max_keys = IF listing.max_keys # 0 THEN listing.max_keys
                                 ELSE listing.list_object_keys_size]
    /\ ListingOnly

\* one turn of the loop with a successful outcome of n objects: a request
\* with a positive MaxKeys gets the next objects up to that number; what the
\* endpoint returns for another MaxKeys is not fixed
ListObjectsPage(n) ==
    LET left == listing.objects - listing.listed
        size == listing.children + n
        keys_left == SubSizeT(listing.max_keys, size)
        is_truncated == listing.listed + n < listing.objects
        appended == [listing EXCEPT !.children = size, !.listed = listing.listed + n]
    IN
    /\ listing.pc = "loop"
    /\ n \in 0..left
    /\ listing.request_max_keys > 0 => n = Min(listing.request_max_keys, left)
    /\ listing' =
        IF n = 0 THEN [listing EXCEPT !.pc = "returned"]
        ELSE IF listing.max_keys = 0
        THEN [appended EXCEPT !.pc = IF is_truncated THEN "loop" ELSE "returned"]
        ELSE IF NotPositive(keys_left)
        THEN [appended EXCEPT !.pc = "returned", !.keys_left = keys_left,
                              !.wrapped = size > listing.max_keys]
        ELSE [appended EXCEPT !.pc = IF is_truncated THEN "loop" ELSE "returned",
                              !.keys_left = keys_left,
                              !.wrapped = size > listing.max_keys,
                              !.request_max_keys = CastToInt(keys_left)]
    /\ ListingOnly

\* throwIfError(outcome)
ListObjectsFails ==
    /\ listing.pc = "loop"
    /\ listing' = [listing EXCEPT !.pc = "thrown"]
    /\ ListingOnly

InitList ==
    /\ store = {}
    /\ max_list_size = 1
    /\ use_parallel_listing = FALSE
    /\ num_workers = 1
    /\ num_parallel_requests = 1
    /\ multiplication_length = Float_1_0
    /\ Constructed
    /\ cache_use = NoCacheUse
    /\ arith = NoArith
    /\ holder = NoHolder
    /\ balancing = NoBalancing
    /\ listing \in {[NoListing EXCEPT !.pc = "called", !.max_keys = m,
                                      !.list_object_keys_size = k, !.objects = o,
                                      !.given = c, !.children = c] :
                        m \in 0..MaxListSize, k \in 1..MaxListSize,
                        o \in 0..MaxObjects, c \in 0..MaxChildren}

NextList ==
    \/ ListObjectsSetup
    \/ \E n \in 0..MaxObjects : ListObjectsPage(n)
    \/ ListObjectsFails

SpecList == InitList /\ [][NextList]_vars

\* C35: with max_keys > 0 the subtraction max_keys - children.size() never
\* wraps around: children.size() <= max_keys where it is computed, whatever
\* children held at the call, so the loop stops as soon as children.size() >=
\* max_keys and no further keys are requested.
C35_KeysLeftNeverWraps ==
    listing.max_keys > 0 =>
        /\ ~listing.wrapped
        /\ listing.listed > 0 /\ listing.children >= listing.max_keys =>
                listing.pc # "loop"
        /\ listing.request_max_keys >= 0

\* ------------------------------------------------- Entry::StateHolder

MaxCalls == 5

\* setEvictedState storing State::Evicted
EvictedStateStored_Evicted == "Evicted"

\* the state setEvictedState hands to setStateImpl
EvictedStateStored == "Evicting"

\* setStateImpl(state_): the exchange, and chassert(prev != state_), which a
\* debug build evaluates (it aborts) and a release build leaves out
setStateImpl(state_) ==
    IF holder.state # state_
    THEN {[state |-> state_, outcome |-> "stored"]}
    ELSE {[state |-> state_, outcome |-> "stored again"],
          [state |-> state_, outcome |-> "aborted"]}

\* the other variables of the module in a run of a StateHolder alone
HolderOnly ==
    UNCHANGED <<config, cache_use, arith, lifetime, listing, balancing, next_start_after,
                cache_builded, cache, pc, result, thrown, batch, truncated, fill,
                emitted, call_start_after, live_requests, calls, path,
                cycles_started, cycles_completed, failures>>

\* a call of the method is made and ends as `after` says
HolderCall(method, after) ==
    /\ holder.outcome # "aborted"
    /\ Len(holder.called) < MaxCalls
    /\ holder' = [state |-> after.state, called |-> Append(holder.called, method),
                  outcome |-> after.outcome]
    /\ HolderOnly

setEvictingState ==
    \E after \in setStateImpl("Evicting") : HolderCall("setEvictingState", after)

setEvictedState ==
    \E after \in setStateImpl(EvictedStateStored) : HolderCall("setEvictedState", after)

\* resetEvictingState throws LOGICAL_ERROR unless the state is Evicting
resetEvictingState ==
    IF holder.state # "Evicting"
    THEN HolderCall("resetEvictingState", [state |-> holder.state, outcome |-> "thrown"])
    ELSE \E after \in setStateImpl("Created") : HolderCall("resetEvictingState", after)

InitHolder ==
    /\ store = {}
    /\ max_list_size = 1
    /\ use_parallel_listing = FALSE
    /\ num_workers = 1
    /\ num_parallel_requests = 1
    /\ multiplication_length = Float_1_0
    /\ Constructed
    /\ cache_use = NoCacheUse
    /\ arith = NoArith
    /\ listing = NoListing
    /\ balancing = NoBalancing
    /\ holder = NoHolder

NextHolder ==
    \/ setEvictingState
    \/ setEvictedState
    \/ resetEvictingState

SpecHolder == InitHolder /\ [][NextHolder]_vars

\* the step is a call of the method
Calls(method) ==
    /\ Len(holder'.called) = Len(holder.called) + 1
    /\ Last(holder'.called) = method

\* C36: setEvictedState stores Evicting, not Evicted: no sequence of
\* setEvictingState, setEvictedState and resetEvictingState calls from None
\* reaches Evicted, and setEvictedState right after setEvictingState stores
\* the state the holder already has, against chassert(prev != state_).
C36_EvictedNeverReached ==
    /\ [](holder.state # "Evicted")
    /\ [][Calls("setEvictedState") => holder'.state = "Evicting"]_vars
    /\ [][/\ Calls("setEvictedState")
          /\ holder.called # <<>>
          /\ Last(holder.called) = "setEvictingState"
          => /\ holder'.state = holder.state
             /\ holder'.outcome \in {"stored again", "aborted"}
       ]_vars

\* setEvictedState was called right after setEvictingState
C36_Witness ==
    /\ Len(holder.called) >= 3
    /\ holder.called[Len(holder.called) - 1] = "setEvictingState"
    /\ Last(holder.called) = "setEvictedState"
    /\ holder.state = "Evicting"
    /\ holder.outcome = "stored again"

\* ------------------------------------------- GetPriorityForLoadBalancing

MaxPoolSize == 5

\* the cases of the switch the model follows; RANDOM returns an empty function
LoadBalancings == {"IN_ORDER", "RANDOM", "FIRST_OR_RANDOM", "ROUND_ROBIN"}

\* the lambda of IN_ORDER in place of the one of ROUND_ROBIN
RoundRobinPriority_InOrder(i) == i

\* the lambda of ROUND_ROBIN: it reads last_used through `this` when it is
\* called, and pool_size as it was at the getPriorityFunc call
RoundRobinPriority(i) ==
    LET j == i + 1 IN
    IF j < balancing.last_used
    THEN balancing.pool_size - j
    ELSE j - balancing.last_used

\* get_priority(i) of the function the last call returned
Priority(i) ==
    CASE balancing.load_balance = "IN_ORDER" -> i
      [] balancing.load_balance = "FIRST_OR_RANDOM" ->
            IF i # balancing.offset THEN 1 ELSE 0
      [] balancing.load_balance = "ROUND_ROBIN" -> RoundRobinPriority(i)

\* the other variables of the module in a run of getPriorityFunc alone
BalancingOnly ==
    UNCHANGED <<config, cache_use, arith, lifetime, listing, holder, next_start_after,
                cache_builded, cache, pc, result, thrown, batch, truncated, fill,
                emitted, call_start_after, live_requests, calls, path,
                cycles_started, cycles_completed, failures>>

\* getPriorityFunc(load_balance, offset, pool_size): only ROUND_ROBIN writes
\* last_used
getPriorityFunc(load_balance, offset, pool_size) ==
    /\ balancing.calls < MaxCalls
    /\ balancing' =
        [pc |-> "returned",
         before |-> balancing.last_used,
         last_used |-> IF load_balance # "ROUND_ROBIN" THEN balancing.last_used
                       ELSE IF balancing.last_used >= pool_size THEN 1
                       ELSE balancing.last_used + 1,
         load_balance |-> load_balance,
         offset |-> offset,
         pool_size |-> pool_size,
         calls |-> balancing.calls + 1]
    /\ BalancingOnly

InitBalancing ==
    /\ store = {}
    /\ max_list_size = 1
    /\ use_parallel_listing = FALSE
    /\ num_workers = 1
    /\ num_parallel_requests = 1
    /\ multiplication_length = Float_1_0
    /\ Constructed
    /\ cache_use = NoCacheUse
    /\ arith = NoArith
    /\ listing = NoListing
    /\ holder = NoHolder
    /\ balancing \in {[NoBalancing EXCEPT !.last_used = n] : n \in 0..MaxPoolSize}

NextBalancing ==
    \E load_balance \in LoadBalancings, pool_size \in 1..MaxPoolSize :
        \E offset \in 0..(pool_size - 1) :
            getPriorityFunc(load_balance, offset, pool_size)

SpecBalancing == InitBalancing /\ [][NextBalancing]_vars

\* the priorities of the indices 0..pool_size-1, in order
Priorities == [i \in 1..balancing.pool_size |-> Priority(i - 1)]

\* C37: a ROUND_ROBIN call with pool_size >= 1 moves last_used round
\* 1..pool_size (to 1 when it was >= pool_size, else one up), and the function
\* returned gives the indices 0..pool_size-1 a permutation of the priorities
\* 0..pool_size-1 with priority 0 at index last_used - 1, as in the examples
\* written for pool_size 5.
C37_RoundRobinPermutation ==
    balancing.pc = "returned" /\ balancing.load_balance = "ROUND_ROBIN" =>
        /\ balancing.last_used \in 1..balancing.pool_size
        /\ balancing.last_used =
                IF balancing.before >= balancing.pool_size THEN 1
                ELSE balancing.before + 1
        /\ SeqToSet(Priorities) = 0..(balancing.pool_size - 1)
        /\ Priority(balancing.last_used - 1) = 0
        /\ balancing.pool_size = 5 /\ balancing.last_used = 1 =>
                Priorities = <<0, 1, 2, 3, 4>>
        /\ balancing.pool_size = 5 /\ balancing.last_used = 2 =>
                Priorities = <<4, 0, 1, 2, 3>>
        /\ balancing.pool_size = 5 /\ balancing.last_used = 3 =>
                Priorities = <<4, 3, 0, 1, 2>>

\* the third call, ROUND_ROBIN on a pool of five, moved last_used from 2 to 3
C37_Witness ==
    /\ balancing.pc = "returned"
    /\ balancing.load_balance = "ROUND_ROBIN"
    /\ balancing.pool_size = 5
    /\ balancing.before = 2
    /\ balancing.last_used = 3
    /\ balancing.calls = 3

====
